---- MODULE Spec2Model ----
(***************************************************************************)
(* Model of excel_combiner.py: a Streamlit script that reads the .xlsx     *)
(* entries of an uploaded ZIP archive, filters every sheet with            *)
(* (column, pattern) conditions, and combines the surviving sheets into    *)
(* one workbook.                                                           *)
(*                                                                         *)
(* Text is a sequence of one-character strings.  A cell is text, a number  *)
(* or a missing value (NaN).  A table is a sequence of column names and a  *)
(* sequence of rows; a row maps every column name to a cell.               *)
(***************************************************************************)
EXTENDS Integers, Sequences, FiniteSets, TLC

VARIABLES
    pandas_na_text,     \* the installed pandas renders NaN as "nan" in astype(str)
    archive,            \* zip_file: the uploaded archive (NoUpload when none)
    processed_sheets,   \* st.session_state.processed_sheets
    error_sheets,       \* st.session_state.error_sheets
    column_options,     \* st.session_state.column_options
    preview_data,       \* st.session_state.preview_data (NoPreview is Python's None)
    pc,                 \* position of the script run
    button,             \* which st.button returned True in this run
    filter_conditions,  \* the list built from the filter widgets in this run
    logic,              \* the "Filter logic" selectbox
    buttons_shown,      \* the buttons the previous run rendered
    file_idx,           \* position of the for loop over excel_files
    sheet_idx,          \* position of the for loop over sheets in process_excel_file
    processed,          \* process_excel_file's local list processed
    file_preview,       \* process_excel_file's local list preview_data
    all_sheets,         \* the combine branch's all_sheets
    write_idx,          \* position of the for loop over all_sheets in the writer
    written,            \* display names whose df.to_excel call returned normally
    reported,           \* what the run showed: st.success / st.error
    call,               \* a direct call of a pure function: its arguments
    ret                 \* ... and its result

vars == << pandas_na_text, archive, processed_sheets, error_sheets, column_options,
           preview_data, pc, button, filter_conditions, logic, buttons_shown,
           file_idx, sheet_idx, processed, file_preview, all_sheets, write_idx,
           written, reported, call, ret >>

----------------------------------------------------------------------------
(* Bounds of the model *)

\* filter conditions the widgets deliver in one run (the code allows up to 5)
MaxConds == 2
\* length of the free part of a name given to sanitize_sheet_name
MaxNameLen == 2

(* Program constants *)

\* sanitized[:31] and f"..."[:31]
MaxSheetNameLen == 31
\* df_filtered.head(5)
PreviewRows == 5

----------------------------------------------------------------------------
(* Text helpers *)

Min(a, b) == IF a < b THEN a ELSE b

Rep(c, n) == [i \in 1..n |-> c]

\* Python's s[:n]
Prefix(s, n) == SubSeq(s, 1, Min(Len(s), n))

\* str.lower on the alphabet used here (what re.IGNORECASE compares)
Lower(c) ==
    CASE c = "A" -> "a"
      [] c = "E" -> "e"
      [] c = "N" -> "n"
      [] OTHER -> c

DigitChar(n) == << "0", "1", "2", "3", "4", "5", "6", "7", "8", "9" >>[n + 1]

----------------------------------------------------------------------------
(* sanitize_sheet_name *)

\* the character class r'[/\\*?:[\]]'
invalid_chars == { "/", "\\", "*", "?", ":", "[", "]" }

\* re.sub(invalid_chars, '_', sheet_name)
ReSubInvalid(s) == [i \in 1..Len(s) |-> IF s[i] \in invalid_chars THEN "_" ELSE s[i]]

\* faulty variant: the character class misses the closing bracket
sanitize_sheet_name_MissesBracket(sheet_name) ==
    Prefix([i \in 1..Len(sheet_name) |->
              IF sheet_name[i] \in invalid_chars \ { "]" } THEN "_" ELSE sheet_name[i]],
           MaxSheetNameLen)

sanitize_sheet_name(sheet_name) == Prefix(ReSubInvalid(sheet_name), MaxSheetNameLen)

\* os.path.splitext(p)[0]: the extension starts at the last dot of the last
\* path component, unless only dots precede it in that component
LastIndexOf(s, c) ==
    IF \E i \in 1..Len(s) : s[i] = c
    THEN CHOOSE i \in 1..Len(s) : s[i] = c /\ \A j \in (i + 1)..Len(s) : s[j] # c
    ELSE 0

splitext_base(p) ==
    LET sep == LastIndexOf(p, "/")
        dot == LastIndexOf(p, ".")
    IN  IF dot > sep /\ (\E k \in (sep + 1)..(dot - 1) : p[k] # ".")
        THEN SubSeq(p, 1, dot - 1)
        ELSE p

\* faulty variant: the file part is dropped from the display name
new_sheet_name_NoFile(sheet_name, file_name) == sanitize_sheet_name(sheet_name)

\* lines 104-107: f"{sanitized_sheet_name}_{sanitized_filename}"[:31]
new_sheet_name(sheet_name, file_name) ==
    Prefix(sanitize_sheet_name(sheet_name) \o << "_" >>
               \o sanitize_sheet_name(splitext_base(file_name)),
           MaxSheetNameLen)

\* file_name.endswith('.xlsx')
XLSX == << ".", "x", "l", "s", "x" >>

endswith_xlsx(name) ==
    Len(name) >= Len(XLSX) /\ SubSeq(name, Len(name) - Len(XLSX) + 1, Len(name)) = XLSX

----------------------------------------------------------------------------
(* Cells and tables *)

Txt(t) == [k |-> "str", t |-> t, v |-> 0]
Num(n) == [k |-> "num", t |-> << >>, v |-> n]
NaN    == [k |-> "nan", t |-> << >>, v |-> 0]

\* a DataFrame as read_excel builds it: RangeIndex labels 0..n-1, which
\* df[mask] keeps
Table(cols, rows) ==
    [columns |-> cols, index |-> [i \in 1..Len(rows) |-> i - 1], rows |-> rows]

ColSet(df) == { df.columns[i] : i \in 1..Len(df.columns) }

\* DataFrame.empty: some axis has length 0
df_empty(df) == Len(df.rows) = 0 \/ Len(df.columns) = 0

\* the dtype pandas gives a column read from a sheet: numbers with a blank cell
\* become float64, numbers alone int64, anything else object
ColCells(df, column) == { df.rows[i][column] : i \in 1..Len(df.rows) }

dtype(df, column) ==
    LET cells == ColCells(df, column)
    IN  IF \A c \in cells : c.k \in { "num", "nan" }
        THEN IF \E c \in cells : c.k = "nan" THEN "float64" ELSE "int64"
        ELSE "object"

\* the marker of a value that stays missing under astype(str)
NA == << "<NA>" >>

\* df[column].astype(str), one cell
astype_str(df, column, cell) ==
    CASE cell.k = "str" -> cell.t
      [] cell.k = "num" ->
            IF dtype(df, column) = "float64"
            THEN << DigitChar(cell.v), ".", "0" >>
            ELSE << DigitChar(cell.v) >>
      [] OTHER -> IF pandas_na_text THEN << "n", "a", "n" >> ELSE NA

----------------------------------------------------------------------------
(* apply_filters *)

\* re.compile(value, re.IGNORECASE): in the pattern alphabet used here the only
\* pattern that does not compile is one with a "(", which nothing closes
re_compiles(value) == \A i \in 1..Len(value) : value[i] # "("

\* regex.search(text) for a compiled pattern of literals and the wildcard "."
re_search(value, text) ==
    \E start \in 0..(Len(text) - Len(value)) :
        \A k \in 1..Len(value) :
            value[k] = "." \/ Lower(value[k]) = Lower(text[start + k])

\* df[column].astype(str).str.contains(value, case=False, na=False), one cell
\* (regex=True is the default of str.contains)
str_contains(df, column, value, cell) ==
    LET text == astype_str(df, column, cell)
    IN  IF text = NA THEN FALSE ELSE re_search(value, text)

\* current_mask of line 83
current_mask(df, column, value) ==
    [i \in 1..Len(df.rows) |-> str_contains(df, column, value, df.rows[i][column])]

\* faulty variant: the masks are always combined with "|"
combine_masks_AlwaysOr(mask, cur, lg) == [i \in DOMAIN mask |-> mask[i] \/ cur[i]]

\* line 87: mask & current_mask if logic == "AND" else mask | current_mask
combine_masks(mask, cur, lg) ==
    [i \in DOMAIN mask |-> IF lg = "AND" THEN mask[i] /\ cur[i] ELSE mask[i] \/ cur[i]]

\* the for loop of lines 81-87; acc.none is "mask is None", acc.raised says that
\* re.compile raised
RECURSIVE filter_loop(_, _, _, _, _)
filter_loop(df, conds, lg, i, acc) ==
    IF i > Len(conds) THEN acc
    ELSE LET column == conds[i][1]
             value  == conds[i][2]
         IN  IF column \notin ColSet(df)
             THEN filter_loop(df, conds, lg, i + 1, acc)
             ELSE IF ~re_compiles(value)
             THEN [acc EXCEPT !.raised = TRUE]
             ELSE LET cur == current_mask(df, column, value)
                  IN  filter_loop(df, conds, lg, i + 1,
                         [none |-> FALSE, raised |-> FALSE,
                          mask |-> IF acc.none THEN cur
                                   ELSE combine_masks(acc.mask, cur, lg)])

\* df[mask]: the rows whose mask is True, in order, with their index labels
RECURSIVE Positions(_, _)
Positions(mask, i) ==
    IF i > Len(mask) THEN << >>
    ELSE (IF mask[i] THEN << i >> ELSE << >>) \o Positions(mask, i + 1)

df_select(df, mask) ==
    LET pos == Positions(mask, 1)
    IN  [columns |-> df.columns,
         index   |-> [j \in 1..Len(pos) |-> df.index[pos[j]]],
         rows    |-> [j \in 1..Len(pos) |-> df.rows[pos[j]]]]

LogEntry(kind, file, sheet) == [kind |-> kind, file |-> file, sheet |-> sheet]

\* faulty variant: with no mask the result is the empty selection
apply_filters_NoMaskEmpty(df, conds, lg) ==
    LET acc == filter_loop(df, conds, lg, 1,
                           [none |-> TRUE, raised |-> FALSE,
                            mask |-> [i \in 1..Len(df.rows) |-> FALSE]])
    IN  [df |-> df_select(df, acc.mask), errors |-> << >>]

\* apply_filters (lines 77-91): the table returned and what it appends to
\* st.session_state.error_sheets
apply_filters(df, conds, lg) ==
    LET acc == filter_loop(df, conds, lg, 1,
                           [none |-> TRUE, raised |-> FALSE,
                            mask |-> [i \in 1..Len(df.rows) |-> FALSE]])
    IN  IF acc.raised
        THEN [df |-> df,
              errors |-> << LogEntry("Error applying filters", << >>, << >>) >>]
        ELSE [df |-> IF acc.none THEN df ELSE df_select(df, acc.mask),
              errors |-> << >>]

----------------------------------------------------------------------------
(* The uploaded archive *)

\* one sheet of a workbook; raises says that handling it throws inside the
\* try block of lines 113-125, before the sheet is appended
Sheet(name, df, raises) == [name |-> name, df |-> df, raises |-> raises]

\* one archive entry; opens says that z.open(name)/f.read() return its bytes,
\* parses that pd.read_excel accepts them
Entry(name, opens, parses, sheets) ==
    [name |-> name, opens |-> opens, parses |-> parses, sheets |-> sheets]

\* the uploaded file; valid_zip says that zipfile.ZipFile accepts it,
\* too_large that it exceeds 100 MB
Upload(too_large, valid_zip, entries) ==
    [present |-> TRUE, too_large |-> too_large, valid_zip |-> valid_zip,
     entries |-> entries]

\* zip_file is None
NoUpload == [present |-> FALSE, too_large |-> FALSE, valid_zip |-> FALSE,
             entries |-> << >>]

\* line 149: [f for f in z.namelist() if f.endswith('.xlsx')]
excel_files(arch) == SelectSeq(arch.entries, LAMBDA e : endswith_xlsx(e.name))

----------------------------------------------------------------------------
(* get_column_options *)

\* the order sorted() gives the column names used here
ColOrder == << "A", "B", "C" >>

sorted_list(S) == SelectSeq(ColOrder, LAMBDA c : c \in S)

\* the loop of lines 58-62 over the sheets of one file
RECURSIVE catalog_sheets(_, _, _, _)
catalog_sheets(file, i, cols, errors) ==
    IF i > Len(file.sheets) THEN [cols |-> cols, errors |-> errors]
    ELSE LET sh == file.sheets[i]
         IN  IF df_empty(sh.df)
             THEN catalog_sheets(file, i + 1, cols,
                      Append(errors, LogEntry("Sheet is empty", file.name, sh.name)))
             ELSE catalog_sheets(file, i + 1, cols \cup ColSet(sh.df), errors)

\* the loop of lines 48-68 over the files
RECURSIVE catalog_files(_, _, _, _)
catalog_files(files, i, cols, errors) ==
    IF i > Len(files) THEN [cols |-> cols, errors |-> errors]
    ELSE LET file == files[i]
         IN  IF ~endswith_xlsx(file.name)
             THEN catalog_files(files, i + 1, cols,
                      Append(errors, LogEntry("Skipped: not an Excel file", file.name, << >>)))
             ELSE IF ~file.opens \/ ~file.parses
             THEN catalog_files(files, i + 1, cols,
                      Append(errors, LogEntry("Error reading", file.name, << >>)))
             ELSE IF Len(file.sheets) = 0
             THEN catalog_files(files, i + 1, cols,
                      Append(errors, LogEntry("No sheets found", file.name, << >>)))
             ELSE LET r == catalog_sheets(file, 1, cols, errors)
                  IN  catalog_files(files, i + 1, r.cols,
                          IF r.cols = { }
                          THEN Append(r.errors,
                                   LogEntry("No valid columns found in any sheet",
                                            file.name, << >>))
                          ELSE r.errors)

\* get_column_options (lines 43-75): the sorted column names and what it
\* appends to st.session_state.error_sheets
get_column_options(files, arch) ==
    IF ~arch.valid_zip
    THEN [column_options |-> << >>,
          errors |-> << LogEntry("Error: not a valid ZIP archive", << >>, << >>) >>]
    ELSE LET r == catalog_files(files, 1, { }, << >>)
         IN  [column_options |-> sorted_list(r.cols), errors |-> r.errors]

----------------------------------------------------------------------------
(* Inputs: the archives a user uploads and the filter widgets' values *)

T1 == Table(<< "A", "B" >>,
            << [A |-> Txt(<< "E", "a" >>), B |-> Num(1)],
               [A |-> Txt(<< "n", "e" >>), B |-> NaN] >>)
T2 == Table(<< "A" >>, << [A |-> Txt(<< "a" >>)], [A |-> NaN] >>)
T3 == Table(<< "A" >>, << [A |-> Txt(<< "E" >>)] >>)
\* a sheet with a header row only, and a blank sheet
THeader == Table(<< "A" >>, << >>)
TBlank == Table(<< >>, << >>)

Data == << "D", "a", "t", "a" >>
Q1 == << "Q", "1" >>
F1 == << "F", "1" >> \o XLSX
F2 == << "F", "2" >> \o XLSX
\* an entry in a directory, and an entry whose name differs from it only in a
\* character the sanitizer replaces
DirF1 == << "d", "/", "F", "1" >> \o XLSX
Dir_F1 == << "d", "_", "F", "1" >> \o XLSX
\* two long file names that agree on their first 30 characters
Long1 == Rep("r", MaxSheetNameLen - 1) \o << "1" >> \o XLSX
Long2 == Rep("r", MaxSheetNameLen - 1) \o << "2" >> \o XLSX
Notes == << "n", ".", "t", "x", "t" >>

SampleArchives ==
    { Upload(FALSE, TRUE,
             << Entry(F1, TRUE, TRUE, << Sheet(Data, T1, FALSE) >>),
                Entry(F2, TRUE, TRUE, << Sheet(Data, T2, FALSE) >>) >>),
      Upload(FALSE, TRUE,
             << Entry(F1, TRUE, FALSE, << >>),
                Entry(Notes, TRUE, FALSE, << >>),
                Entry(F2, TRUE, TRUE, << Sheet(Q1, THeader, FALSE), Sheet(Data, T2, FALSE) >>) >>),
      Upload(FALSE, TRUE,
             << Entry(F1, TRUE, TRUE, << Sheet(Data, T2, FALSE), Sheet(Q1, T3, FALSE) >>),
                Entry(DirF1, FALSE, FALSE, << >>),
                Entry(F2, TRUE, TRUE, << Sheet(Data, T3, FALSE) >>) >>),
      Upload(FALSE, TRUE,
             << Entry(Long1, TRUE, TRUE, << Sheet(Data, T2, FALSE) >>),
                Entry(Long2, TRUE, TRUE, << Sheet(Data, T2, FALSE) >>) >>),
      Upload(FALSE, TRUE,
             << Entry(DirF1, TRUE, TRUE, << Sheet(Q1, T2, TRUE), Sheet(Data, T2, FALSE) >>),
                Entry(F1, TRUE, TRUE, << >>),
                Entry(Dir_F1, TRUE, TRUE, << Sheet(Data, T3, FALSE), Sheet(Q1, TBlank, FALSE) >>) >>),
      Upload(FALSE, TRUE, << Entry(Notes, TRUE, FALSE, << >>) >>),
      Upload(FALSE, FALSE, << >>),
      Upload(TRUE, TRUE, << Entry(F1, TRUE, TRUE, << Sheet(Data, T2, FALSE) >>) >>) }

\* the texts typed into the "Filter value" boxes
Patterns == { << "a" >>, << "(" >> }

\* lists of at most n elements of S
RECURSIVE SeqsUpTo(_, _)
SeqsUpTo(S, n) ==
    IF n = 0 THEN { << >> }
    ELSE LET shorter == SeqsUpTo(S, n - 1)
         IN  shorter \cup { Append(q, x) : q \in { r \in shorter : Len(r) = n - 1 }, x \in S }

SeqToSet(q) == { q[i] : i \in 1..Len(q) }

\* lines 162-180: a slot contributes (column, value) when a column other than
\* "None" is selected from column_options and the value is not empty
WidgetConditions(options) == SeqsUpTo(SeqToSet(options) \X Patterns, MaxConds)

----------------------------------------------------------------------------
(* The script *)

\* st.session_state.preview_data: None, or a list
NoPreview == [is_none |-> TRUE, items |-> << >>]
PreviewList(items) == [is_none |-> FALSE, items |-> items]

Shown(kind, count) == [kind |-> kind, count |-> count]
NoCall == [fn |-> "none"]

\* lines 25-29, before any upload
MainInit ==
    /\ pandas_na_text \in BOOLEAN
    /\ archive = NoUpload
    /\ processed_sheets = 0
    /\ error_sheets = << >>
    /\ column_options = << >>
    /\ preview_data = NoPreview
    /\ pc = "idle"
    /\ button = "none"
    /\ filter_conditions = << >>
    /\ logic = "AND"
    /\ buttons_shown = { }
    /\ file_idx = 0
    /\ sheet_idx = 0
    /\ processed = << >>
    /\ file_preview = << >>
    /\ all_sheets = << >>
    /\ write_idx = 0
    /\ written = << >>
    /\ reported = Shown("Please upload a ZIP file", 0)

Init == MainInit /\ call = NoCall /\ ret = NoCall

Files == excel_files(archive)

\* df.head(5)
head(df, n) ==
    [columns |-> df.columns, index |-> Prefix(df.index, n), rows |-> Prefix(df.rows, n)]

\* faulty variant: the counter is not reset
reset_processed_sheets_Kept == processed_sheets

\* line 137: st.session_state.processed_sheets = 0
reset_processed_sheets == 0

\* One run of the script from the top down to the buttons (lines 133-219).
\* A run without a button is an upload or a change of the filter widgets; a
\* run started by a button keeps the upload and the widgets' values.
StartRun(a, btn, conds, lg) ==
    /\ pc = "idle"
    /\ IF btn = "none"
       THEN TRUE
       ELSE btn \in buttons_shown /\ a = archive /\ conds = filter_conditions /\ lg = logic
    /\ archive' = a
    /\ button' = btn
    /\ processed_sheets' = reset_processed_sheets
    /\ file_idx' = 1
    /\ sheet_idx' = 0
    /\ processed' = << >>
    /\ file_preview' = << >>
    /\ all_sheets' = << >>
    /\ write_idx' = 0
    /\ written' = << >>
    /\ UNCHANGED << pandas_na_text, call, ret >>
    /\ IF a.too_large \/ ~a.valid_zip \/ excel_files(a) = << >>
       THEN /\ reported' = Shown(IF a.too_large THEN "ZIP file is too large"
                                 ELSE IF ~a.valid_zip THEN "Error: not a valid ZIP archive"
                                 ELSE "No Excel files found", 0)
            /\ error_sheets' = << >>
            /\ preview_data' = NoPreview
            /\ buttons_shown' = { }
            /\ pc' = "idle"
            /\ filter_conditions' = << >>   \* widgets that are not rendered lose
            /\ logic' = "AND"               \* their values
            /\ UNCHANGED column_options
       ELSE LET cat == get_column_options(excel_files(a), a)
            IN  /\ column_options' = cat.column_options
                /\ error_sheets' = cat.errors
                /\ conds \in WidgetConditions(cat.column_options)
                /\ filter_conditions' = conds
                /\ logic' = lg
                /\ preview_data' = IF btn = "preview" THEN PreviewList(<< >>) ELSE NoPreview
                /\ buttons_shown' = IF btn = "preview" THEN { "preview" }
                                    ELSE { "preview", "combine" }
                /\ reported' = Shown("running", 0)
                /\ pc' = IF btn = "none" THEN "idle" ELSE "file"

\* lines 189-190 / 222-223 and the head of process_excel_file (lines 97-101):
\* the entry is opened and read outside any handler but the run's own
OpenFile ==
    /\ pc = "file"
    /\ file_idx <= Len(Files)
    /\ LET file == Files[file_idx]
       IN  IF ~file.opens
           THEN /\ reported' = Shown("Error processing ZIP file", 0)
                /\ pc' = "idle"
                /\ UNCHANGED << error_sheets, file_idx, sheet_idx >>
           ELSE IF ~file.parses
           THEN /\ error_sheets' = Append(error_sheets,
                                          LogEntry("Error processing file", file.name, << >>))
                /\ file_idx' = file_idx + 1
                /\ UNCHANGED << reported, pc, sheet_idx >>
           ELSE IF Len(file.sheets) = 0
           THEN /\ error_sheets' = Append(error_sheets,
                                          LogEntry("No sheets found", file.name, << >>))
                /\ file_idx' = file_idx + 1
                /\ UNCHANGED << reported, pc, sheet_idx >>
           ELSE /\ pc' = "sheet"
                /\ sheet_idx' = 1
                /\ UNCHANGED << reported, error_sheets, file_idx >>
    /\ processed' = << >>
    /\ file_preview' = << >>
    /\ UNCHANGED << pandas_na_text, archive, processed_sheets, column_options,
                    preview_data, button, filter_conditions, logic, buttons_shown,
                    all_sheets, write_idx, written, call, ret >>

\* an output entry (new_sheet_name, df_filtered); src_file and src_sheet record
\* where it came from
OutEntry(name, df, f, sh) == [name |-> name, df |-> df, src_file |-> f, src_sheet |-> sh]

\* faulty variant: the check of lines 118-120 is missing
process_sheet_KeepsEmptied(file, fidx, sidx, conds, lg, preview) ==
    LET sh   == file.sheets[sidx]
        name == new_sheet_name(sh.name, file.name)
        res  == apply_filters(sh.df, conds, lg)
    IN  IF sh.raises \/ df_empty(sh.df)
        THEN [errors |-> << LogEntry("Sheet is empty", file.name, sh.name) >>,
              processed |-> << >>, preview |-> << >>, count |-> 0]
        ELSE [errors    |-> res.errors,
              processed |-> << OutEntry(name, res.df, fidx, sidx) >>,
              preview   |-> IF preview
                            THEN << OutEntry(name, head(res.df, PreviewRows), fidx, sidx) >>
                            ELSE << >>,
              count     |-> 1]

\* the body of the loop over sheets (lines 102-127) for sheet number sidx of
\* file number fidx: what it appends to error_sheets, to processed and to
\* preview_data, and what it adds to processed_sheets
process_sheet(file, fidx, sidx, conds, lg, preview) ==
    LET sh   == file.sheets[sidx]
        name == new_sheet_name(sh.name, file.name)
        res  == apply_filters(sh.df, conds, lg)
        skip(errors) == [errors |-> errors, processed |-> << >>, preview |-> << >>,
                         count |-> 0]
    IN  IF sh.raises
        THEN skip(<< LogEntry("Error processing sheet", file.name, sh.name) >>)
        ELSE IF df_empty(sh.df)
        THEN skip(<< LogEntry("Sheet is empty", file.name, sh.name) >>)
        ELSE IF df_empty(res.df)
        THEN skip(Append(res.errors,
                         LogEntry("No rows remain after filtering", file.name, sh.name)))
        ELSE [errors    |-> res.errors,
              processed |-> << OutEntry(name, res.df, fidx, sidx) >>,
              preview   |-> IF preview
                            THEN << OutEntry(name, head(res.df, PreviewRows), fidx, sidx) >>
                            ELSE << >>,
              count     |-> 1]

\* one iteration of the loop over sheets
ProcessSheet ==
    /\ pc = "sheet"
    /\ sheet_idx <= Len(Files[file_idx].sheets)
    /\ LET r == process_sheet(Files[file_idx], file_idx, sheet_idx, filter_conditions,
                              logic, button = "preview")
       IN  /\ error_sheets' = error_sheets \o r.errors
           /\ processed' = processed \o r.processed
           /\ file_preview' = file_preview \o r.preview
           /\ processed_sheets' = processed_sheets + r.count
    /\ sheet_idx' = sheet_idx + 1
    /\ UNCHANGED << pandas_na_text, archive, column_options, preview_data, pc, button,
                    filter_conditions, logic, buttons_shown, file_idx, all_sheets,
                    write_idx, written, reported, call, ret >>

\* faulty variant: the file's entries are put in front of the list
extend_InFront(list, items) == items \o list

\* list.extend(items)
extend(list, items) == list \o items

\* line 128 and lines 198 / 231: the file's lists are returned and extended
\* into the run's list
ReturnFile ==
    /\ pc = "sheet"
    /\ sheet_idx > Len(Files[file_idx].sheets)
    /\ IF button = "preview"
       THEN /\ preview_data' = PreviewList(extend(preview_data.items, file_preview))
            /\ UNCHANGED all_sheets
       ELSE /\ all_sheets' = extend(all_sheets, processed)
            /\ UNCHANGED preview_data
    /\ processed' = << >>       \* the call's locals are gone
    /\ file_preview' = << >>
    /\ file_idx' = file_idx + 1
    /\ pc' = "file"
    /\ UNCHANGED << pandas_na_text, archive, processed_sheets, error_sheets,
                    column_options, button, filter_conditions, logic, buttons_shown,
                    sheet_idx, write_idx, written, reported, call, ret >>

\* the loop over excel_files has ended (lines 200-205 / 233, 262-265)
LoopDone ==
    /\ pc = "file"
    /\ file_idx > Len(Files)
    /\ IF button = "preview"
       THEN /\ reported' = Shown("Data Preview", Len(preview_data.items))
            /\ buttons_shown' = { "preview", "combine" }
            /\ pc' = "idle"
            /\ UNCHANGED write_idx
       ELSE IF all_sheets = << >>
       THEN /\ reported' = Shown("No sheets could be processed", 0)
            /\ pc' = "idle"
            /\ UNCHANGED << write_idx, buttons_shown >>
       ELSE /\ pc' = "write"
            /\ write_idx' = 1
            /\ UNCHANGED << reported, buttons_shown >>
    /\ UNCHANGED << pandas_na_text, archive, processed_sheets, error_sheets,
                    column_options, preview_data, button, filter_conditions, logic,
                    file_idx, sheet_idx, processed, file_preview, all_sheets, written,
                    call, ret >>

\* what df.to_excel does with one sheet: it returns, raises ValueError, or
\* raises another exception
WriteOutcomes == { "ok", "ValueError", "Exception" }

\* one iteration of the writer loop (lines 237-242, 260-261)
WriteSheet(outcome) ==
    /\ pc = "write"
    /\ write_idx <= Len(all_sheets)
    /\ LET e == all_sheets[write_idx]
       IN  CASE outcome = "ok" ->
                  /\ written' = Append(written, e.name)
                  /\ write_idx' = write_idx + 1
                  /\ UNCHANGED << error_sheets, reported, pc >>
             [] outcome = "ValueError" ->
                  /\ error_sheets' = Append(error_sheets,
                                            LogEntry("Error writing sheet", << >>, e.name))
                  /\ write_idx' = write_idx + 1
                  /\ UNCHANGED << written, reported, pc >>
             [] OTHER ->
                  /\ reported' = Shown("Error creating Excel file", 0)
                  /\ pc' = "idle"
                  /\ UNCHANGED << written, error_sheets, write_idx >>
    /\ UNCHANGED << pandas_na_text, archive, processed_sheets, column_options,
                    preview_data, button, filter_conditions, logic, buttons_shown,
                    file_idx, sheet_idx, processed, file_preview, all_sheets, call, ret >>

\* the number in st.success (line 247)
success_count == processed_sheets

\* lines 244-259: the writer is closed and the result is shown
Report ==
    /\ pc = "write"
    /\ write_idx > Len(all_sheets)
    /\ reported' = Shown("Successfully processed", success_count)
    /\ pc' = "idle"
    /\ UNCHANGED << pandas_na_text, archive, processed_sheets, error_sheets,
                    column_options, preview_data, button, filter_conditions, logic,
                    buttons_shown, file_idx, sheet_idx, processed, file_preview,
                    all_sheets, write_idx, written, call, ret >>

\* the widgets' values after a new upload: a selectbox whose column is no
\* longer among its options falls back to "None"
KeptConditions(a) ==
    LET options == get_column_options(excel_files(a), a).column_options
    IN  SelectSeq(filter_conditions, LAMBDA c : c[1] \in SeqToSet(options))

\* A run starts with an upload, with a change of a filter widget, or with a
\* click on a button the previous run rendered.
Next ==
    \/ \E a \in SampleArchives : StartRun(a, "none", KeptConditions(a), logic)
    \/ \E conds \in WidgetConditions(column_options), lg \in { "AND", "OR" } :
          buttons_shown # { } /\ StartRun(archive, "none", conds, lg)
    \/ \E btn \in buttons_shown : StartRun(archive, btn, filter_conditions, logic)
    \/ OpenFile
    \/ ProcessSheet
    \/ ReturnFile
    \/ LoopDone
    \/ \E outcome \in WriteOutcomes : WriteSheet(outcome)
    \/ Report

Spec == Init /\ [][Next]_vars

----------------------------------------------------------------------------
(* apply_filters called directly on a table and two conditions *)

\* rows of the tables given to apply_filters
MaxRows == 2

FilterCells == { Txt(<< "a" >>), Txt(<< "E", "a" >>), Num(5), NaN }

FilterTables ==
    { T1 } \cup
    { Table(<< "A" >>, [i \in 1..Len(q) |-> [A |-> q[i]]]) : q \in SeqsUpTo(FilterCells, MaxRows) }

FilterPatterns == { << "a" >>, << "e", "A" >>, << "." >>, << "(" >> }

FilterConds == { "A", "B", "C" } \X FilterPatterns

InitFilter ==
    /\ MainInit
    /\ call \in { [fn |-> "apply_filters", df |-> df, c1 |-> c1, c2 |-> c2, logic |-> lg] :
                    df \in FilterTables, c1 \in FilterConds, c2 \in FilterConds,
                    lg \in { "AND", "OR" } }
    /\ ret = NoCall

\* apply_filters on the list of both conditions, on each condition alone and
\* on the empty list
CallApplyFilters ==
    /\ ret = NoCall
    /\ ret' = [fn     |-> "apply_filters",
               both   |-> apply_filters(call.df, << call.c1, call.c2 >>, call.logic),
               first  |-> apply_filters(call.df, << call.c1 >>, call.logic),
               second |-> apply_filters(call.df, << call.c2 >>, call.logic),
               none   |-> apply_filters(call.df, << >>, call.logic)]
    /\ UNCHANGED << pandas_na_text, archive, processed_sheets, error_sheets,
                    column_options, preview_data, pc, button, filter_conditions, logic,
                    buttons_shown, file_idx, sheet_idx, processed, file_preview,
                    all_sheets, write_idx, written, reported, call >>

NextFilter == CallApplyFilters

FilterSpec == InitFilter /\ [][NextFilter]_vars

----------------------------------------------------------------------------
(* sanitize_sheet_name and the display name, on one sheet of one workbook *)

NameChars == { "a", "/", "]" }

\* short names, and the same names behind a run of characters that brings them
\* to the 31-character limit
NameInputs ==
    { Rep("s", pad) \o q :
        pad \in { 0 } \cup ((MaxSheetNameLen - 2)..MaxSheetNameLen),
        q \in SeqsUpTo(NameChars, MaxNameLen) }

FileInputs ==
    { Rep("f", pad) \o q \o XLSX :
        pad \in { 0, MaxSheetNameLen - 1 },
        q \in { << "b" >>, << ":" >>, << "d", "/", "b" >>, << "." >> } }

InitNames ==
    /\ MainInit
    /\ call \in { [fn |-> "process_sheet", sheet_name |-> sn, file_name |-> fn] :
                    sn \in NameInputs, fn \in FileInputs }
    /\ ret = NoCall

\* lines 104-107 and 121 for a workbook file_name with the one sheet sheet_name
CallProcessSheet ==
    /\ ret = NoCall
    /\ LET file == Entry(call.file_name, TRUE, TRUE, << Sheet(call.sheet_name, T2, FALSE) >>)
       IN  ret' = [fn |-> "process_sheet",
                   sanitized_sheet_name |-> sanitize_sheet_name(call.sheet_name),
                   sanitized_filename   |->
                       sanitize_sheet_name(splitext_base(call.file_name)),
                   processed |-> process_sheet(file, 1, 1, << >>, "AND", FALSE).processed]
    /\ UNCHANGED << pandas_na_text, archive, processed_sheets, error_sheets,
                    column_options, preview_data, pc, button, filter_conditions, logic,
                    buttons_shown, file_idx, sheet_idx, processed, file_preview,
                    all_sheets, write_idx, written, reported, call >>

NextNames == CallProcessSheet

NameSpec == InitNames /\ [][NextNames]_vars

----------------------------------------------------------------------------
(* Properties *)

IndexSet(df) == { df.index[i] : i \in 1..Len(df.index) }

Returned == ret # NoCall

\* the run in progress, or just ended, was started by a button
ButtonRun == button \in { "preview", "combine" }

\* C1: in a Preview or Combine run a failure confined to one file (its entry
\* cannot be opened or read, or its bytes cannot be parsed) is appended to the
\* error log and the later files are still processed: the run ends only after
\* the loop has passed every file.
C1_EveryFileProcessed ==
    ButtonRun =>
        /\ pc = "idle" => file_idx > Len(Files)
        /\ \A i \in 1..Min(file_idx - 1, Len(Files)) :
               (~Files[i].opens \/ ~Files[i].parses) =>
                   \E k \in 1..Len(error_sheets) :
                       error_sheets[k] = LogEntry("Error processing file", Files[i].name, << >>)

\* C2 as stated: with AND the rows of apply_filters(T, [c1, c2]) are among the
\* rows of apply_filters(T, [c1]) and of apply_filters(T, [c2]); with OR they
\* include the rows of both, whatever columns c1 and c2 name.
C2_Original ==
    Returned =>
        IF call.logic = "AND"
        THEN /\ IndexSet(ret.both.df) \subseteq IndexSet(ret.first.df)
             /\ IndexSet(ret.both.df) \subseteq IndexSet(ret.second.df)
        ELSE /\ IndexSet(ret.first.df) \subseteq IndexSet(ret.both.df)
             /\ IndexSet(ret.second.df) \subseteq IndexSet(ret.both.df)

\* C2 amended: with AND, apply_filters(T, [c1, c2]) either logs a failed
\* evaluation and returns T whole, or returns rows that are among the rows of
\* each condition alone; with OR its rows include the rows of
\* apply_filters(T, [ci]) for each ci whose column is in T.
C2_Monotone ==
    Returned =>
        IF call.logic = "AND"
        THEN ret.both.errors = << >> =>
                /\ IndexSet(ret.both.df) \subseteq IndexSet(ret.first.df)
                /\ IndexSet(ret.both.df) \subseteq IndexSet(ret.second.df)
        ELSE /\ call.c1[1] \in ColSet(call.df) =>
                    IndexSet(ret.first.df) \subseteq IndexSet(ret.both.df)
             /\ call.c2[1] \in ColSet(call.df) =>
                    IndexSet(ret.second.df) \subseteq IndexSet(ret.both.df)

\* two conditions on columns of T whose conjunction keeps fewer rows than
\* either of them
C2_Witness ==
    /\ Returned
    /\ call.logic = "AND"
    /\ call.c1[1] \in ColSet(call.df)
    /\ call.c2[1] \in ColSet(call.df)
    /\ ret.both.errors = << >>
    /\ IndexSet(ret.both.df) # IndexSet(ret.first.df)
    /\ IndexSet(ret.both.df) # IndexSet(ret.second.df)

\* the pattern occurs in the text as a substring, letter case ignored
ContainsIgnoreCase(pattern, text) ==
    \E start \in 0..(Len(text) - Len(pattern)) :
        \A k \in 1..Len(pattern) : Lower(pattern[k]) = Lower(text[start + k])

\* C3: a row is kept by a condition (column, pattern) on a column of the table
\* exactly when its value in that column is not missing and the text of the
\* value contains the pattern as a case-insensitive substring.
C3_SubstringMatch ==
    Returned /\ call.c1[1] \in ColSet(call.df) =>
        \A i \in 1..Len(call.df.rows) :
            LET cell == call.df.rows[i][call.c1[1]]
            IN  call.df.index[i] \in IndexSet(ret.first.df)
                <=> /\ cell.k # "nan"
                    /\ ContainsIgnoreCase(call.c1[2],
                                          astype_str(call.df, call.c1[1], cell))

\* C4: the count shown by a Combine run is the number of sheets written into
\* the workbook.
C4_CountIsWritten ==
    reported.kind = "Successfully processed" => reported.count = Len(written)

\* C5: every run starts by resetting the counter and the error log, whatever
\* the earlier runs left in them (the log then holds what the column catalog
\* pass of this run appends), and a Combine run that shows its result has a
\* counter equal to the length of all_sheets.
C5_ResetAndCount ==
    /\ [][pc = "idle" =>
            /\ processed_sheets' = 0
            /\ error_sheets' =
                   IF archive'.too_large \/ ~archive'.valid_zip
                          \/ excel_files(archive') = << >>
                   THEN << >>
                   ELSE get_column_options(excel_files(archive'), archive').errors]_vars
    /\ [](reported.kind \in { "Successfully processed", "No sheets could be processed" }
            => processed_sheets = Len(all_sheets))

\* a Combine run that shows its result for a sheet it combined, in a log to
\* which this run's column catalog pass had appended
C5_Witness ==
    /\ reported.kind = "Successfully processed"
    /\ processed_sheets >= 1
    /\ \E k \in 1..Len(error_sheets) : error_sheets[k].kind = "Error reading"

\* a list of output entries is in file order, then sheet order, and each
\* entry carries the display name of the sheet it comes from
InInputOrder(list) ==
    /\ \A i, j \in 1..Len(list) :
           i < j =>
               \/ list[i].src_file < list[j].src_file
               \/ /\ list[i].src_file = list[j].src_file
                  /\ list[i].src_sheet < list[j].src_sheet
    /\ \A i \in 1..Len(list) :
           /\ list[i].src_file \in 1..Len(Files)
           /\ list[i].src_sheet \in 1..Len(Files[list[i].src_file].sheets)
           /\ list[i].name =
                  new_sheet_name(Files[list[i].src_file].sheets[list[i].src_sheet].name,
                                 Files[list[i].src_file].name)

\* C6: the combined output list (and the preview list) is ordered by input
\* file order and, within a file, by sheet order.
C6_OutputOrder ==
    /\ InInputOrder(all_sheets)
    /\ InInputOrder(all_sheets \o processed)
    /\ InInputOrder(preview_data.items)

\* two entries from the first and the third file, with a sheet and a file
\* skipped between them
C6_Witness ==
    /\ Len(all_sheets) = 2
    /\ all_sheets[1].src_file = 1
    /\ all_sheets[1].src_sheet = 2
    /\ all_sheets[2].src_file = 3

NoInvalidChars(s) == \A i \in 1..Len(s) : s[i] \notin { "/", "\\", "*", "?", ":", "[", "]" }

\* the sheet name and the file base name an output entry comes from
SheetOf(e) == Files[e.src_file].sheets[e.src_sheet].name
BaseOf(e) == splitext_base(Files[e.src_file].name)

\* C7 as stated: two output entries for sheets of the same name from files of
\* different base names have distinct display names, each sheet + "_" + file.
C7_Original ==
    \A i, j \in 1..Len(all_sheets) :
        LET e1 == all_sheets[i]
            e2 == all_sheets[j]
        IN  (SheetOf(e1) = SheetOf(e2) /\ BaseOf(e1) # BaseOf(e2)) =>
                /\ e1.name # e2.name
                /\ e1.name = SheetOf(e1) \o << "_" >> \o BaseOf(e1)
                /\ e2.name = SheetOf(e2) \o << "_" >> \o BaseOf(e2)

\* sheet + "_" + base needs neither a replacement nor a truncation
FitsUnchanged(e) ==
    /\ NoInvalidChars(SheetOf(e))
    /\ NoInvalidChars(BaseOf(e))
    /\ Len(SheetOf(e)) + 1 + Len(BaseOf(e)) <= 31

\* C7 amended: ... provided that the sheet name and both base names hold none
\* of / \ * ? : [ ] and sheet + "_" + file is at most 31 characters long for
\* both files.
C7_DistinctNames ==
    \A i, j \in 1..Len(all_sheets) :
        LET e1 == all_sheets[i]
            e2 == all_sheets[j]
        IN  (/\ SheetOf(e1) = SheetOf(e2)
             /\ BaseOf(e1) # BaseOf(e2)
             /\ FitsUnchanged(e1)
             /\ FitsUnchanged(e2)) =>
                /\ e1.name # e2.name
                /\ e1.name = SheetOf(e1) \o << "_" >> \o BaseOf(e1)
                /\ e2.name = SheetOf(e2) \o << "_" >> \o BaseOf(e2)

\* Data_F1 and Data_F2 in the output
C7_Witness ==
    /\ Len(all_sheets) = 2
    /\ all_sheets[1].name = << "D", "a", "t", "a", "_", "F", "1" >>
    /\ all_sheets[2].name = << "D", "a", "t", "a", "_", "F", "2" >>

HasRows(list) == \A i \in 1..Len(list) : Len(list[i].df.rows) >= 1

\* the loop is about to handle a sheet that is empty, or that the filter
\* empties
AtEmptySheet ==
    /\ pc = "sheet"
    /\ sheet_idx <= Len(Files[file_idx].sheets)
    /\ LET sh == Files[file_idx].sheets[sheet_idx]
       IN  /\ ~sh.raises
           /\ \/ df_empty(sh.df)
              \/ Len(apply_filters(sh.df, filter_conditions, logic).df.rows) = 0

\* C8: every table in the output and preview lists has a row; a sheet that is
\* empty, or that the filter empties, adds exactly one entry to the error log,
\* nothing to the lists and nothing to the counter.
C8_EmptySkipped ==
    /\ [](HasRows(all_sheets) /\ HasRows(processed) /\ HasRows(file_preview)
            /\ HasRows(preview_data.items))
    /\ [][AtEmptySheet =>
            /\ Len(error_sheets') = Len(error_sheets) + 1
            /\ SubSeq(error_sheets', 1, Len(error_sheets)) = error_sheets
            /\ error_sheets'[Len(error_sheets')].sheet = Files[file_idx].sheets[sheet_idx].name
            /\ processed' = processed
            /\ file_preview' = file_preview
            /\ processed_sheets' = processed_sheets]_vars

\* a Combine run that kept one sheet and skipped another that the filter
\* emptied
C8_Witness ==
    /\ reported.kind = "Successfully processed"
    /\ Len(all_sheets) = 1
    /\ processed_sheets = 1
    /\ \E k \in 1..Len(error_sheets) :
           error_sheets[k].kind = "No rows remain after filtering"

\* C9: when no condition of the list names a column of T (the empty list
\* included), apply_filters returns T: same rows, same order.
C9_NoMaskUnchanged ==
    Returned =>
        /\ ret.none.df = call.df
        /\ call.c1[1] \notin ColSet(call.df) => ret.first.df = call.df
        /\ call.c2[1] \notin ColSet(call.df) => ret.second.df = call.df
        /\ (call.c1[1] \notin ColSet(call.df) /\ call.c2[1] \notin ColSet(call.df)) =>
               ret.both.df = call.df

\* two conditions on columns that a table with rows does not have
C9_Witness ==
    /\ Returned
    /\ call.c1[1] \notin ColSet(call.df)
    /\ call.c2[1] \notin ColSet(call.df)
    /\ call.c1 # call.c2
    /\ Len(call.df.rows) >= 2
    /\ ret.both.df = call.df

SheetNameSafe(s) == Len(s) <= 31 /\ NoInvalidChars(s)

\* C10: sanitize_sheet_name returns at most 31 characters, none of them one of
\* / \ * ? : [ ], and so does every display name put in the output list.
C10_NamesSafe ==
    Returned =>
        /\ SheetNameSafe(ret.sanitized_sheet_name)
        /\ SheetNameSafe(ret.sanitized_filename)
        /\ \A i \in 1..Len(ret.processed) : SheetNameSafe(ret.processed[i].name)

\* a sheet name of more than 31 characters with a "]" in its first 31, in a
\* file in a directory: the display name is cut to 31 characters
C10_Witness ==
    /\ Returned
    /\ Len(call.sheet_name) > 31
    /\ \E i \in 1..31 : call.sheet_name[i] = "]"
    /\ \E i \in 1..Len(call.file_name) : call.file_name[i] = "/"
    /\ Len(ret.processed) = 1
    /\ Len(ret.processed[1].name) = 31

====
